---- MODULE Spec2Model ----
(***************************************************************************)
(* Model of best_tile.py: class BestTile (constructor, process, run).      *)
(*                                                                         *)
(* An image is a record [name, h, w, ok, lap]: its file name (a sequence   *)
(* of one-character strings), its shape, whether read() can decode it, and *)
(* lap, the |Laplacian| detail map that lines 69-70 derive from it.  The   *)
(* grayscale conversion and the Laplacian are numeric collaborators whose  *)
(* result is an input here; maps hold naturals so that all sums are exact. *)
(*                                                                         *)
(* pepeline.best_tile and chainner_ext.resize are imported libraries: only *)
(* their calls are in best_tile.py.  They are modelled from sections 4.2   *)
(* and 4.3 of the specification (summed-area-table search with row-major   *)
(* first-maximum tie-break; box/area averaging).                           *)
(***************************************************************************)
EXTENDS Integers, Sequences, FiniteSets, TLC

VARIABLES
    tile_size,      \* self.tile_size
    scale,          \* self.scale
    process_type,   \* self.process_type
    all_images,     \* self.all_images: the listing snapshot, a sequence of images
    out_files,      \* the output folder: file name -> content
    progress,       \* completed count of the rich progress task
    jobs,           \* per index of all_images: the state of update_and_process(img)
    cursor,         \* loop index (sequential) / result iterator index (pools)
    run_state,      \* "constructed", "running", "raising", "returned", "raised"
    smap,           \* window search on its own: the detail map
    stile,          \*   the tile size
    sres            \*   the result, or NoResult

vars == <<tile_size, scale, process_type, all_images, out_files, progress,
          jobs, cursor, run_state, smap, stile, sres>>

batch_vars == <<tile_size, scale, process_type, all_images, out_files, progress,
                jobs, cursor, run_state>>

search_vars == <<smap, stile, sres>>

(***************************************************************************)
(* Bounds of the model.                                                    *)
(***************************************************************************)
MaxDim == 5        \* largest image height / width
MaxSearchDim == 4  \* largest map side of the window search on its own
MaxTile == 3       \* largest tile_size
MaxScale == 3      \* largest scale
MaxImages == 3     \* longest input listing
MaxWorkers == 2    \* threads of the pool

Max(a, b) == IF a >= b THEN a ELSE b
Min(a, b) == IF a <= b THEN a ELSE b

(***************************************************************************)
(* Detail maps: [h, w, d] with d[y][x] for 0 <= y < h, 0 <= x < w.         *)
(***************************************************************************)
\* The map of shape h x w with value f[y, x] at row y, column x.
MkMap(h, w, f) ==
    [h |-> h, w |-> w, d |-> [y \in 0..(h - 1) |-> [x \in 0..(w - 1) |-> f[y, x]]]]

Const(h, w, b) == MkMap(h, w, [y \in 0..(h - 1), x \in 0..(w - 1) |-> b])

BaseValues == {0, 5}
HotValues == {1, 10}

\* A constant map with one raised pixel.
OneHot(h, w, b, p, v) ==
    MkMap(h, w, [y \in 0..(h - 1), x \in 0..(w - 1) |->
                    IF <<y, x>> = p THEN b + v ELSE b])

\* A constant map with two raised pixels.
TwoHot(h, w, b, p, v, q, u) ==
    MkMap(h, w, [y \in 0..(h - 1), x \in 0..(w - 1) |->
                    IF <<y, x>> = p THEN b + v ELSE IF <<y, x>> = q THEN b + u ELSE b])

Cells(h, w) == (0..(h - 1)) \X (0..(w - 1))

ConstMaps(h, w) == {Const(h, w, b) : b \in BaseValues}

OneHotMaps(h, w) ==
    {OneHot(h, w, b, p, v) : b \in BaseValues, p \in Cells(h, w), v \in HotValues}

TwoHotMaps(h, w) ==
    {TwoHot(h, w, 0, p, v, q, u) :
        p \in Cells(h, w), q \in Cells(h, w), v \in HotValues, u \in HotValues}

ThinMaps(h, w) == ConstMaps(h, w) \cup OneHotMaps(h, w)

RichMaps(h, w) == ThinMaps(h, w) \cup TwoHotMaps(h, w)

(***************************************************************************)
(* Window Search Engine (pepeline.best_tile), specification section 4.2.   *)
(***************************************************************************)
NoResult == <<-1, -1>>

\* Step 1: the summed-area table, (h+1) x (w+1), first row and column zero.
IntegralMap(m) ==
    LET I[y \in 0..m.h, x \in 0..m.w] ==
            IF y = 0 \/ x = 0 THEN 0
            ELSE I[y - 1, x] + I[y, x - 1] - I[y - 1, x - 1] + m.d[y - 1][x - 1]
    IN I

\* Step 2: the window sum in O(1) from the table I.
WindowSumStale(I, y, x, t) == I[y + t, x + t] - I[y, x + t] - I[y + t, x]

WindowSum(I, y, x, t) == I[y + t, x + t] - I[y, x + t] - I[y + t, x] + I[y, x]

\* Step 3: k-th candidate of the row-major scan over nw columns.
Cand(k, nw) == <<k \div nw, k % nw>>

RECURSIVE Scan(_, _, _, _, _, _, _)
Scan(I, t, nw, n, k, best, bestSum) ==
    IF k >= n THEN best
    ELSE LET c == Cand(k, nw)
             s == WindowSum(I, c[1], c[2], t)
         IN IF s > bestSum THEN Scan(I, t, nw, n, k + 1, c, s)
            ELSE Scan(I, t, nw, n, k + 1, best, bestSum)

\* Steps 1-4, for 1 <= t <= m.h and t <= m.w.
BestTileSearch(m, t) ==
    LET I == IntegralMap(m)
        nh == m.h - t + 1
        nw == m.w - t + 1
    IN Scan(I, t, nw, nh * nw, 1, <<0, 0>>, WindowSum(I, 0, 0, t))

\* A call of best_tile(m, t).  Within its contract (1 <= t <= h, t <= w) it
\* returns the coordinate of section 4.2, and t > h or t > w is signalled as an
\* error.  With t = 0 the contract does not say: the call raises, or the scan of
\* 4.2 runs over windows of size 0.
SearchError == <<-2, -2>>

BestTileCall(m, t) ==
    IF t >= 1 /\ t <= m.h /\ t <= m.w THEN {BestTileSearch(m, t)}
    ELSE IF t = 0 THEN {SearchError, BestTileSearch(m, t)}
    ELSE {SearchError}

(***************************************************************************)
(* chainner_ext.resize with ResizeFilter.Box, specification section 4.3:   *)
(* every destination pixel is the area-weighted mean of the source pixels  *)
(* it covers.  Lengths are measured in units of 1/(m.h * h2) of the height *)
(* (resp. width), so a destination pixel covers m.h x m.w units and the    *)
(* value kept here is that mean times the constant m.h * m.w.              *)
(***************************************************************************)
Overlap(k, i, n, n2) == Max(0, Min((k + 1) * n2, (i + 1) * n) - Max(k * n2, i * n))

RECURSIVE BoxSum(_, _, _, _, _, _)
BoxSum(m, h2, w2, i, j, k) ==
    IF k >= m.h * m.w THEN 0
    ELSE LET y == k \div m.w
             x == k % m.w
         IN Overlap(y, i, m.h, h2) * Overlap(x, j, m.w, w2) * m.d[y][x]
            + BoxSum(m, h2, w2, i, j, k + 1)

BoxResize(m, w2, h2) ==
    MkMap(h2, w2, [i \in 0..(h2 - 1), j \in 0..(w2 - 1) |-> BoxSum(m, h2, w2, i, j, 0)])

(***************************************************************************)
(* File names: sequences of one-character strings.                         *)
(***************************************************************************)
RECURSIVE SplitDot(_)
SplitDot(s) ==
    IF \A i \in 1..Len(s) : s[i] # "." THEN <<s>>
    ELSE LET i == CHOOSE k \in 1..Len(s) :
                      s[k] = "." /\ \A l \in 1..(k - 1) : s[l] # "."
         IN <<SubSeq(s, 1, i - 1)>> \o SplitDot(SubSeq(s, i + 1, Len(s)))

RECURSIVE JoinDot(_)
JoinDot(parts) ==
    IF parts = <<>> THEN <<>>
    ELSE IF Len(parts) = 1 THEN parts[1]
    ELSE parts[1] \o <<".">> \o JoinDot(Tail(parts))

AllButLast(parts) == SubSeq(parts, 1, Len(parts) - 1)

Png == <<".", "p", "n", "g">>

\* Line 68: ".".join(img_name.split(".")[:-1]) + ".png"
ResultName(img_name) == JoinDot(AllButLast(SplitDot(img_name))) \o Png

(***************************************************************************)
(* process(img_name), lines 61-78.                                         *)
(***************************************************************************)
NoMap == Const(0, 0, 0)
NoName == <<>>
NoContent == [src |-> <<>>, top |-> 0, left |-> 0, rows |-> 0, cols |-> 0]

\* What save() is given: rows top..top+rows-1, columns left..left+cols-1 of src.
WholeImage(img) ==
    [src |-> img.name, top |-> 0, left |-> 0, rows |-> img.h, cols |-> img.w]

\* Line 77: img[r:r+T, c:c+T]; a slice ends at the array's edge.
Crop(img, coord, T) ==
    [src |-> img.name,
     top |-> coord[1], left |-> coord[2],
     rows |-> Max(0, Min(coord[1] + T, img.h) - Min(coord[1], img.h)),
     cols |-> Max(0, Min(coord[2] + T, img.w) - Min(coord[2], img.w))]

NoRes ==
    [outcome |-> "none", file |-> NoName, content |-> NoContent, coord |-> NoResult,
     searches |-> 0, search_map |-> NoMap, search_tile |-> 0,
     search_result |-> NoResult]

\* Line 63
SkippedBoth(img, T) == img.h < T /\ img.w < T

Skipped(img, T) == img.h < T \/ img.w < T

\* Line 65
PassThroughBoth(img, T) == img.h = T /\ img.w = T

PassThrough(img, T) == img.h = T \/ img.w = T

\* Lines 72-73: the map handed to best_tile
SearchMap(img, S) ==
    IF S > 1 THEN BoxResize(img.lap, img.w \div S, img.h \div S) ELSE img.lap

\* Lines 74, 76: the tile size handed to best_tile
SearchTile(T, S) == T \div S

\* Lines 74, 76: the coordinate of the crop from best_tile's
ScaleCoordUnscaled(c, S) == c

ScaleCoord(c, S) == IF S > 1 THEN <<c[1] * S, c[2] * S>> ELSE c

\* Line 66: what the pass-through saves
PassContent(img) == WholeImage(img)

\* The possible results of process(img.name) with tile_size T and scale S.
ProcessResults(img, T, S) ==
    IF ~img.ok THEN {[NoRes EXCEPT !.outcome = "read_error"]}
    ELSE IF Skipped(img, T) THEN {[NoRes EXCEPT !.outcome = "skip"]}
    ELSE IF PassThrough(img, T) THEN
        {[NoRes EXCEPT !.outcome = "pass", !.file = img.name,
                       !.content = PassContent(img)]}
    ELSE LET m == SearchMap(img, S)
             t == SearchTile(T, S)
             called == [NoRes EXCEPT !.searches = 1, !.search_map = m, !.search_tile = t]
         IN {IF c = SearchError
                 THEN [called EXCEPT !.outcome = "search_error", !.search_result = c]
                 ELSE [called EXCEPT !.outcome = "tile",
                                     !.search_result = c,
                                     !.coord = ScaleCoord(c, S),
                                     !.file = ResultName(img.name),
                                     !.content = Crop(img, ScaleCoord(c, S), T)]
             : c \in BestTileCall(m, t)}

Failed(r) == r.outcome \in {"read_error", "search_error"}

\* save(): the file is created or overwritten.
Save(files, r) ==
    IF r.file = NoName THEN files ELSE (r.file :> r.content) @@ files

(***************************************************************************)
(* run(), lines 84-106.  A job is update_and_process(img) for one index of *)
(* all_images:                                                             *)
(*   st        "pending"   not started                                     *)
(*             "processed" process() returned, progress.advance not run    *)
(*             "done"      update_and_process returned                     *)
(*             "failed"    an exception ended it                           *)
(*             "cancelled" its future was cancelled before it started      *)
(*   attempts  calls of process() for it                                   *)
(*   advanced  calls of progress.advance(task) by it                       *)
(*   tick      the progress count its advance produced (0: none)           *)
(*   res       what process() did                                          *)
(***************************************************************************)
NewJob == [st |-> "pending", attempts |-> 0, advanced |-> 0, tick |-> 0, res |-> NoRes]

N == Len(all_images)

Jobs == 1..N

\* Line 98: progress.advance(task), one step under the Progress object's lock.
AdvanceUnlessSkip(count, r) == IF r.outcome = "skip" THEN count ELSE count + 1

Advance(count, r) == count + 1

\* Line 97 for job i with result r: process() ran, and either raised or returned.
Processed(i, r) ==
    /\ jobs' = [jobs EXCEPT ![i] = [@ EXCEPT !.st = IF Failed(r) THEN "failed" ELSE "processed",
                                             !.attempts = @ + 1,
                                             !.res = r]]
    /\ out_files' = Save(out_files, r)

\* Line 98 for job i.
Advanced(i) ==
    /\ progress' = Advance(progress, jobs[i].res)
    /\ jobs' = [jobs EXCEPT ![i] = [@ EXCEPT !.st = "done",
                                             !.advanced = @ + (progress' - progress),
                                             !.tick = progress']]

config_vars == <<tile_size, scale, process_type, all_images>>

\* Lines 84-94: run() entered, the progress task added with nothing completed.
Run ==
    /\ run_state = "constructed"
    /\ run_state' = "running"
    /\ progress' = 0
    /\ UNCHANGED <<config_vars, out_files, jobs, cursor, search_vars>>

\* Lines 104-106, one iteration: update_and_process(img_name), in one thread.
SeqUpdateAndProcess ==
    /\ run_state = "running"
    /\ process_type \notin {"thread", "process"}
    /\ cursor <= N
    /\ \E r \in ProcessResults(all_images[cursor], tile_size, scale) :
         IF Failed(r)
         THEN /\ Processed(cursor, r)
              /\ run_state' = "raised"
              /\ UNCHANGED <<progress, cursor>>
         ELSE /\ out_files' = Save(out_files, r)
              /\ progress' = Advance(progress, r)
              /\ jobs' = [jobs EXCEPT ![cursor] =
                            [@ EXCEPT !.st = "done", !.attempts = @ + 1, !.res = r,
                                      !.advanced = @ + (progress' - progress),
                                      !.tick = progress']]
              /\ cursor' = cursor + 1
              /\ UNCHANGED run_state
    /\ UNCHANGED <<config_vars, search_vars>>

\* Line 105: the loop is exhausted; the with block ends and run() returns.
SeqReturn ==
    /\ run_state = "running"
    /\ process_type \notin {"thread", "process"}
    /\ cursor > N
    /\ run_state' = "returned"
    /\ UNCHANGED <<config_vars, out_files, progress, jobs, cursor, search_vars>>

InFlight == {i \in Jobs : jobs[i].st = "processed"}

FirstPending(i) ==
    /\ jobs[i].st = "pending"
    /\ \A k \in 1..(i - 1) : jobs[k].st # "pending"

\* Line 101, thread_map: Executor.map submits every job up front; a free worker
\* thread takes the oldest queued job and runs process() for it.
ThreadProcess(i) ==
    /\ run_state \in {"running", "raising"}
    /\ process_type = "thread"
    /\ FirstPending(i)
    /\ Cardinality(InFlight) < MaxWorkers
    /\ \E r \in ProcessResults(all_images[i], tile_size, scale) : Processed(i, r)
    /\ UNCHANGED <<config_vars, progress, cursor, run_state, search_vars>>

\* Line 98 in a worker thread.
ThreadAdvance(i) ==
    /\ run_state \in {"running", "raising"}
    /\ process_type = "thread"
    /\ jobs[i].st = "processed"
    /\ Advanced(i)
    /\ UNCHANGED <<config_vars, out_files, cursor, run_state, search_vars>>

\* Line 103, process_map: update_and_process is a function local to run(), which
\* pickle cannot serialise, so a queued call never reaches a worker process: its
\* future fails without process() having run.
ProcessPickleFail(i) ==
    /\ run_state = "running"
    /\ process_type = "process"
    /\ FirstPending(i)
    /\ jobs' = [jobs EXCEPT ![i] = [@ EXCEPT !.st = "failed",
                                             !.res = [NoRes EXCEPT !.outcome = "pickle_error"]]]
    /\ UNCHANGED <<config_vars, out_files, progress, cursor, run_state, search_vars>>

\* Lines 101, 103: list(...) takes the next result of Executor.map, in order.
PoolResult ==
    /\ run_state = "running"
    /\ process_type \in {"thread", "process"}
    /\ cursor <= N
    /\ jobs[cursor].st = "done"
    /\ cursor' = cursor + 1
    /\ UNCHANGED <<config_vars, out_files, progress, jobs, run_state, search_vars>>

\* The next result is an exception: Executor.map's iterator cancels every future
\* that has not started and the exception leaves list(...).
PoolRaise ==
    /\ run_state = "running"
    /\ process_type \in {"thread", "process"}
    /\ cursor <= N
    /\ jobs[cursor].st = "failed"
    /\ jobs' = [i \in Jobs |-> IF jobs[i].st = "pending"
                                  THEN [jobs[i] EXCEPT !.st = "cancelled"]
                                  ELSE jobs[i]]
    /\ run_state' = "raising"
    /\ UNCHANGED <<config_vars, out_files, progress, cursor, search_vars>>

\* The executor's with block waits for the running jobs; run() then raises.
PoolShutdown ==
    /\ run_state = "raising"
    /\ InFlight = {}
    /\ run_state' = "raised"
    /\ UNCHANGED <<config_vars, out_files, progress, jobs, cursor, search_vars>>

\* Every result was taken: run() returns.
PoolReturn ==
    /\ run_state = "running"
    /\ process_type \in {"thread", "process"}
    /\ cursor > N
    /\ run_state' = "returned"
    /\ UNCHANGED <<config_vars, out_files, progress, jobs, cursor, search_vars>>

Next ==
    \/ Run
    \/ SeqUpdateAndProcess
    \/ SeqReturn
    \/ \E i \in Jobs : ThreadProcess(i)
    \/ \E i \in Jobs : ThreadAdvance(i)
    \/ \E i \in Jobs : ProcessPickleFail(i)
    \/ PoolResult
    \/ PoolRaise
    \/ PoolShutdown
    \/ PoolReturn

(***************************************************************************)
(* The input folder of the batch runs: five files.                         *)
(***************************************************************************)
Image(name, h, w, ok, lap) == [name |-> name, h |-> h, w |-> w, ok |-> ok, lap |-> lap]

Corner(h, w) == OneHot(h, w, 0, <<h - 1, w - 1>>, 10)

Folder ==
    { Image(<<"a", ".", "j">>, 4, 4, TRUE, Corner(4, 4)),
      Image(<<"a", ".", "p", "n", "g">>, 3, 4, TRUE, Corner(3, 4)),
      Image(<<"b">>, 4, 3, TRUE, Corner(4, 3)),
      Image(<<"c">>, 2, 2, TRUE, Corner(2, 2)),
      Image(<<"x", ".", "j">>, 1, 1, FALSE, Corner(1, 1)) }

RECURSIVE Listings(_)
Listings(n) ==
    IF n = 0 THEN {<<>>}
    ELSE LET shorter == Listings(n - 1)
         IN shorter \cup
            {Append(l, f) : l \in {k \in shorter : Len(k) = n - 1},
                            f \in Folder}

\* os.listdir names every file once, in no particular order.
Distinct(l) == \A i, j \in 1..Len(l) : i # j => l[i].name # l[j].name

\* After __init__ (lines 45-52): the configuration and the listing snapshot.
Init ==
    /\ tile_size \in 1..MaxTile
    /\ scale \in 1..MaxScale
    /\ process_type \in {"sequential", "thread", "process"}
    /\ all_images \in {l \in Listings(MaxImages) : Distinct(l)}
    /\ out_files = <<>>
    /\ progress = 0
    /\ jobs = [i \in 1..Len(all_images) |-> NewJob]
    /\ cursor = 1
    /\ run_state = "constructed"
    /\ smap = NoMap /\ stile = 0 /\ sres = NoResult

Spec == Init /\ [][Next]_vars

(***************************************************************************)
(* process() on its own: a one-file folder, sequential mode, any image of  *)
(* the bounded shapes and maps, an output folder that may hold a file.     *)
(***************************************************************************)
Dims == 1..MaxDim

ProcNames == {<<"a", ".", "j">>, <<"a", ".", "p", "n", "g">>}

ProcMaps(h, w) == ConstMaps(h, w) \cup {OneHot(h, w, 0, p, 10) : p \in Cells(h, w)}

ProcImages ==
    {Image(n, 1, 1, FALSE, Corner(1, 1)) : n \in ProcNames}
    \cup UNION {{Image(n, h, w, TRUE, m) : n \in ProcNames, m \in ProcMaps(h, w)} :
                    h \in Dims, w \in Dims}

OldContent == [src |-> <<"o", "l", "d">>, top |-> 0, left |-> 0, rows |-> 1, cols |-> 1]

InitProcess ==
    /\ tile_size \in 1..MaxTile
    /\ scale \in 1..MaxScale
    /\ process_type = "sequential"
    /\ \E img \in ProcImages : all_images = <<img>>
    /\ out_files \in {<<>>, (<<"a", ".", "p", "n", "g">> :> OldContent)}
    /\ progress = 0
    /\ jobs = <<NewJob>>
    /\ cursor = 1
    /\ run_state = "constructed"
    /\ smap = NoMap /\ stile = 0 /\ sres = NoResult

NextProcess == Run \/ SeqUpdateAndProcess \/ SeqReturn

SpecProcess == InitProcess /\ [][NextProcess]_vars

(***************************************************************************)
(* The window search on its own inputs.                                    *)
(***************************************************************************)
InitSearch ==
    /\ \E h \in 1..MaxSearchDim, w \in 1..MaxSearchDim :
         /\ smap \in RichMaps(h, w)
         /\ stile \in 1..Min(h, w)
    /\ sres = NoResult
    /\ tile_size = 1 /\ scale = 1 /\ process_type = "sequential"
    /\ all_images = <<>> /\ out_files = <<>> /\ progress = 0
    /\ jobs = <<>> /\ cursor = 1 /\ run_state = "constructed"

Search ==
    /\ sres = NoResult
    /\ sres' = BestTileSearch(smap, stile)
    /\ UNCHANGED <<smap, stile>>
    /\ UNCHANGED batch_vars

SpecSearch == InitSearch /\ [][Search]_vars

\* Brute force: the window sum by direct summation, O(t^2) per window.
RECURSIVE DirectSum(_, _, _, _, _)
DirectSum(m, y, x, t, k) ==
    IF k >= t * t THEN 0
    ELSE m.d[y + (k \div t)][x + (k % t)] + DirectSum(m, y, x, t, k + 1)

BruteSum(m, c, t) == DirectSum(m, c[1], c[2], t, 0)

Windows(m, t) == (0..(m.h - t)) \X (0..(m.w - t))

RowMajorBefore(a, b) == a[1] < b[1] \/ (a[1] = b[1] /\ a[2] <= b[2])

BruteForce(m, t) ==
    CHOOSE c \in Windows(m, t) :
        \A o \in Windows(m, t) :
            /\ BruteSum(m, c, t) >= BruteSum(m, o, t)
            /\ BruteSum(m, c, t) = BruteSum(m, o, t) => RowMajorBefore(c, o)

ScenarioA == OneHot(4, 4, 0, <<3, 3>>, 10)
ScenarioB == Const(4, 4, 5)

\* C7: the integral-image search returns the coordinate and the maximum window
\* sum of the brute-force search with the row-major first-occurrence tie-break;
\* its sum is >= every window's sum; one value 10 at (3,3) of a 4x4 map with
\* t = 2 gives (2,2), and a constant 4x4 map with t = 2 gives (0,0).
C7_SearchMatchesBruteForce ==
    sres # NoResult =>
        /\ sres \in Windows(smap, stile)
        /\ sres = BruteForce(smap, stile)
        /\ WindowSum(IntegralMap(smap), sres[1], sres[2], stile)
               = BruteSum(smap, BruteForce(smap, stile), stile)
        /\ \A o \in Windows(smap, stile) :
               BruteSum(smap, sres, stile) >= BruteSum(smap, o, stile)
        /\ (smap = ScenarioA /\ stile = 2) => sres = <<2, 2>>
        /\ (smap = ScenarioB /\ stile = 2) => sres = <<0, 0>>

\* A search whose maximum is tied between several windows, none of them the
\* first of the scan, has run.
C7_Witness ==
    /\ sres # NoResult
    /\ sres # <<0, 0>>
    /\ \E o \in Windows(smap, stile) :
           o # sres /\ BruteSum(smap, o, stile) = BruteSum(smap, sres, stile)

(***************************************************************************)
(* Properties of process(), checked under SpecProcess.                     *)
(***************************************************************************)
Img(i) == all_images[i]

Res(i) == jobs[i].res

Ran(i) == jobs[i].st \in {"done", "failed"}

\* C1: for an image that is neither skipped nor passed through, and a scale
\* S >= 1 with floor(T/S) >= 1, the coordinate of the crop satisfies
\* 0 <= row <= H-T and 0 <= col <= W-T.
C1_CropInsideImage ==
    \A i \in Jobs :
        (/\ Res(i).outcome = "tile"
         /\ Img(i).h > tile_size /\ Img(i).w > tile_size
         /\ scale >= 1 /\ tile_size \div scale >= 1)
        => /\ 0 <= Res(i).coord[1] /\ Res(i).coord[1] <= Img(i).h - tile_size
           /\ 0 <= Res(i).coord[2] /\ Res(i).coord[2] <= Img(i).w - tile_size

\* C5: for an image with H < T or W < T, process() writes no file and runs no
\* search; the step of that job leaves the output folder unchanged.
C5_UndersizedSkipped ==
    [][\A i \in Jobs :
          (/\ Img(i).ok
           /\ Img(i).h < tile_size \/ Img(i).w < tile_size
           /\ jobs[i].st = "pending" /\ jobs'[i].st # "pending")
          => /\ out_files' = out_files
             /\ jobs'[i].res.outcome = "skip"
             /\ jobs'[i].res.file = NoName
             /\ jobs'[i].res.searches = 0]_vars

\* An undersized image was processed while the output folder held a file.
C5_Witness ==
    \E i \in Jobs :
        /\ jobs[i].st = "done"
        /\ Img(i).ok
        /\ Img(i).h < tile_size /\ Img(i).w >= tile_size
        /\ DOMAIN out_files # {}

\* C6: for an image with H >= T and W >= T where H = T or W = T, process()
\* saves the whole image, uncropped, under its original name and runs no search.
C6_EqualDimensionPassThrough ==
    \A i \in Jobs :
        (/\ Ran(i)
         /\ Img(i).ok
         /\ Img(i).h >= tile_size /\ Img(i).w >= tile_size
         /\ Img(i).h = tile_size \/ Img(i).w = tile_size)
        => /\ Res(i).outcome = "pass"
           /\ Res(i).file = Img(i).name
           /\ Img(i).name \in DOMAIN out_files
           /\ out_files[Img(i).name] =
                  [src |-> Img(i).name, top |-> 0, left |-> 0,
                   rows |-> Img(i).h, cols |-> Img(i).w]
           /\ Res(i).searches = 0
           /\ Res(i).search_map = NoMap

\* An image with one dimension equal to the tile size and the other larger
\* was processed, replacing a file the output folder held under its name.
C6_Witness ==
    \E i \in Jobs :
        /\ jobs[i].st = "done"
        /\ Img(i).ok
        /\ Img(i).h = tile_size /\ Img(i).w > tile_size
        /\ Img(i).name = <<"a", ".", "p", "n", "g">>
        /\ out_files[Img(i).name].src = Img(i).name

\* C8: when S > 1 makes floor(T/S) < 1, the job fails: no window search is run
\* with tile size 0 and no file is written for the image.
C8_ZeroTileRejected ==
    \A i \in Jobs :
        (/\ Ran(i)
         /\ Img(i).ok
         /\ Img(i).h > tile_size /\ Img(i).w > tile_size
         /\ scale > 1 /\ tile_size \div scale < 1)
        => /\ jobs[i].st = "failed"
           /\ Res(i).searches = 0
           /\ Res(i).file = NoName

\* C10: with S > 1 and T divisible by S, the crop's coordinate is S times the
\* coordinate of the window search on the detail map downsampled to
\* (H div S) x (W div S) with tile size T/S; with S = 1 the search runs on the
\* detail map itself with tile size T and its coordinate is used unchanged.
C10_ScaledSearch ==
    \A i \in Jobs :
        Res(i).outcome = "tile" =>
            /\ (scale > 1 /\ tile_size % scale = 0) =>
                   LET m == BoxResize(Img(i).lap, Img(i).w \div scale, Img(i).h \div scale)
                       c == BruteForce(m, tile_size \div scale)
                   IN /\ Res(i).search_map = m
                      /\ m.h = Img(i).h \div scale /\ m.w = Img(i).w \div scale
                      /\ Res(i).search_tile = tile_size \div scale
                      /\ Res(i).search_result = c
                      /\ Res(i).coord = <<scale * c[1], scale * c[2]>>
                      /\ Res(i).content.top = scale * c[1]
                      /\ Res(i).content.left = scale * c[2]
            /\ scale = 1 =>
                   /\ Res(i).search_map = Img(i).lap
                   /\ Res(i).search_tile = tile_size
                   /\ Res(i).coord = BruteForce(Img(i).lap, tile_size)
                   /\ Res(i).content.top = Res(i).coord[1]
                   /\ Res(i).content.left = Res(i).coord[2]

\* A crop was taken at a coordinate scaled up from a reduced-resolution search
\* of an image whose height is not a multiple of the scale.
C10_Witness ==
    \E i \in Jobs :
        /\ Res(i).outcome = "tile"
        /\ scale > 1 /\ tile_size % scale = 0
        /\ Img(i).h % scale # 0
        /\ Res(i).search_result[1] > 0 /\ Res(i).search_result[2] > 0
        /\ Res(i).coord = <<scale * Res(i).search_result[1], scale * Res(i).search_result[2]>>

(***************************************************************************)
(* Properties of run(), checked under Spec.                                *)
(***************************************************************************)
Over == run_state \in {"returned", "raised"}

\* C2: a failure inside process() for one image does not abort the other jobs:
\* run() processes every other image and does not raise.
C2_FailureIsolated ==
    (\E i \in Jobs : Res(i).outcome = "read_error") =>
        /\ run_state \notin {"raising", "raised"}
        /\ Over => \A j \in Jobs : jobs[j].attempts = 1

RECURSIVE SumAdvanced(_)
SumAdvanced(n) == IF n = 0 THEN 0 ELSE jobs[n].advanced + SumAdvanced(n - 1)

\* C3: a job that completes with a tile, a pass-through or a skip advances the
\* progress counter exactly once, whatever the interleaving; no job advances it
\* twice; when run() returns under the thread model the counter equals N.
C3_ProgressCountsJobs ==
    /\ \A i \in Jobs :
          /\ jobs[i].advanced <= 1
          /\ (jobs[i].st = "done" /\ Res(i).outcome \in {"tile", "pass", "skip"})
                => jobs[i].advanced = 1
    /\ progress = SumAdvanced(N)
    /\ (run_state = "returned" /\ process_type = "thread") => progress = N

\* A thread run of a full listing returned, with a skip among its outcomes and
\* a later job completed before an earlier one.
C3_Witness ==
    /\ run_state = "returned" /\ process_type = "thread"
    /\ N = MaxImages
    /\ \E i \in Jobs : Res(i).outcome = "skip"
    /\ \E i \in Jobs : Res(i).outcome = "tile"
    /\ \E i, j \in Jobs : i < j /\ jobs[j].tick < jobs[i].tick

\* C4: two different items of the listing that both produce output write
\* different output file names.
C4_DisjointOutputNames ==
    \A i, j \in Jobs :
        (i # j /\ Res(i).file # NoName /\ Res(j).file # NoName)
            => Res(i).file # Res(j).file

\* C9: run() hands control back only after every image of the listing was
\* attempted exactly once, and the sequential mode attempts them in order.
C9_BulkSynchronous ==
    /\ \A i \in Jobs : jobs[i].attempts <= 1
    /\ Over => \A i \in Jobs : jobs[i].attempts = 1
    /\ process_type = "sequential" =>
           \A i, j \in Jobs : (i < j /\ jobs[j].attempts > 0) => jobs[i].st = "done"

====
